---- MODULE Spec2Model ----
(***************************************************************************)
(* Model of the IDB reconciliation command                                 *)
(* cl/recap/management/commands/merge_idb_into_dockets.py: the driver      *)
(* loops join_fjc_with_dockets and update_any_missing_pacer_case_ids, the  *)
(* helper do_heuristic_match, and the collaborators they call (the Docket  *)
(* store, the celery queue, the PACER session); and of the prayers of     *)
(* cl/favorites/utils.py: create_prayer with its quota, and                *)
(* send_prayer_emails.                                                     *)
(*                                                                         *)
(* Strings that the code searches or splits (case names, docket numbers)   *)
(* are sequences of one-character strings; keys that are only compared     *)
(* for equality (court ids, docket_number_core) are TLA+ strings.          *)
(***************************************************************************)
EXTENDS Integers, Sequences, FiniteSets, TLC

VARIABLES
    options,      \* the options dict handed to the command
    pc,           \* "start" | "loop" | "throttled" | "done" | "error"
    pass,         \* 1 for the first run of the command, 2 for a re-run
    i,            \* enumerate() index of the item the loop is at
    idb_rows,     \* merge_and_create: the streamed queryset, a sequence of IDB pks
    dockets,      \* the Docket table: pk -> row
    queue,        \* celery: jobs sent with apply_async and not yet run
    calls,        \* every task call the driver made, in order
    n_ds,         \* update_case_ids: number of dockets the queryset streams
    session,      \* update_case_ids: number of PacerSession logins so far
    cookie_jobs,  \* update_case_ids: chains dispatched with the current cookies
    processed,    \* update_case_ids: items dispatched in this run
    logins,       \* update_case_ids: the re-logins made inside the loop
    stream,       \* update_case_ids: the streamed queryset ds, a sequence of Docket pks
    waits,        \* calls of throttle.maybe_wait() that have returned in this run
    raised,       \* the index at which the loop body raised, or -1
    prayers,      \* cl.favorites: the Prayer table, a sequence of rows (id = index)
    now,          \* cl.favorites: timezone.now(), in hours
    available,    \* cl.favorites: the RECAPDocuments that are available
    procs,        \* cl.favorites: the calls of create_prayer and send_prayer_emails
    outbox        \* cl.favorites: the emails sent

vars == <<options, pc, pass, i, idb_rows, dockets, queue, calls,
          n_ds, session, cookie_jobs, processed, logins, stream, waits, raised,
          prayers, now, available, procs, outbox>>

prayer_vars == <<prayers, now, available, procs, outbox>>

driver_vars == <<options, pc, pass, i, idb_rows, dockets, queue, calls,
                 n_ds, session, cookie_jobs, processed, logins, stream, waits, raised>>

\* the prayers of cl.favorites before any call
NoPrayers ==
    /\ prayers = <<>>
    /\ now = 0
    /\ available = {}
    /\ procs = <<>>
    /\ outbox = {}

merge_vars == <<idb_rows, dockets, queue, calls>>

update_vars == <<n_ds, session, cookie_jobs, processed, logins, stream>>

(***************************************************************************)
(* Bounds of the model.                                                    *)
(***************************************************************************)
MaxOffset == 2

MaxLimit == 3

MaxDockets == 3

ThrottleItems == 2

(***************************************************************************)
(* Text helpers: Python str methods and the ORM's icontains.               *)
(***************************************************************************)
Min(a, b) == IF a <= b THEN a ELSE b

Max(a, b) == IF a >= b THEN a ELSE b

Up2Low ==
    [A |-> "a", B |-> "b", C |-> "c", D |-> "d", E |-> "e", F |-> "f",
     G |-> "g", H |-> "h", I |-> "i", J |-> "j", K |-> "k", L |-> "l",
     M |-> "m", N |-> "n", O |-> "o", P |-> "p", Q |-> "q", R |-> "r",
     S |-> "s", T |-> "t", U |-> "u", V |-> "v", W |-> "w", X |-> "x",
     Y |-> "y", Z |-> "z"]

\* str.lower(); the concatenation makes the result a sequence in full
lower(s) ==
    [k \in 1..Len(s) |-> IF s[k] \in DOMAIN Up2Low THEN Up2Low[s[k]] ELSE s[k]] \o <<>>

\* the least k >= from with sub at s[k..], or 0: str.find, one-based
Find(s, sub, from) ==
    LET hits == {k \in from..(Len(s) - Len(sub) + 1) :
                    \A h \in 1..Len(sub) : s[k + h - 1] = sub[h]}
    IN  IF hits = {} THEN 0 ELSE CHOOSE k \in hits : \A h \in hits : k <= h

\* field__icontains=sub
icontains(s, sub) ==
    \E ls \in {lower(s)}, lsub \in {lower(sub)} :
        \E k \in 1..(Len(ls) - Len(lsub) + 1) :
            \A h \in 1..Len(lsub) : ls[k + h - 1] = lsub[h]

RECURSIVE split(_, _)
\* str.split(sep)
split(s, sep) ==
    LET k == Find(s, sep, 1)
    IN  IF k = 0 THEN <<s>>
        ELSE <<SubSeq(s, 1, k - 1)>> \o split(SubSeq(s, k + Len(sep), Len(s)), sep)

RECURSIVE replace(_, _, _)
\* str.replace(old, new)
replace(s, old, new) ==
    LET k == Find(s, old, 1)
    IN  IF k = 0 THEN s
        ELSE SubSeq(s, 1, k - 1) \o new \o replace(SubSeq(s, k + Len(old), Len(s)), old, new)

\* s[0:n]
Slice(s, n) == SubSeq(s, 1, Min(n, Len(s)))

V_SEP == <<" ","v","."," ">>

\* "%s v. %s" % (a, b)
FormatV(a, b) == a \o V_SEP \o b

\* juriscraper's harmonize, by the first of its rules: "vs." is written "v."
harmonize(s) == replace(s, <<" ","v","s","."," ">>, V_SEP)

(***************************************************************************)
(* cl.lib.string_diff.find_best_match: a similarity ratio in [0,1] derived *)
(* from the insert/delete edit distance, 2*LCS(a,b)/(|a|+|b|), kept as the *)
(* exact fraction <<numerator, denominator>>.                              *)
(***************************************************************************)
RECURSIVE LcsRow(_, _, _, _)
\* the row of the LCS table for character c, built left to right from prev
LcsRow(prev, c, b, cur) ==
    LET j == Len(cur)
    IN  IF j > Len(b) THEN cur
        ELSE LcsRow(prev, c, b,
                    Append(cur, IF c = b[j] THEN prev[j] + 1
                                ELSE Max(prev[j + 1], cur[j])))

RECURSIVE LcsRows(_, _, _, _)
\* the last cell of the LCS table of a and b, row by row; prev is row k-1
LcsRows(a, b, k, prev) ==
    IF Len(prev) = Len(b) + 1 /\ k <= Len(a)
    THEN LcsRows(a, b, k + 1, LcsRow(prev, a[k], b, <<0>>))
    ELSE prev[Len(b) + 1]

\* the length of the longest common prefix of a and b
CommonPrefix(a, b) ==
    LET same == {k \in 0..Min(Len(a), Len(b)) : \A h \in 1..k : a[h] = b[h]}
    IN  CHOOSE k \in same : \A h \in same : h <= k

\* the length of the longest common suffix of a and b
CommonSuffix(a, b) ==
    LET same == {k \in 0..Min(Len(a), Len(b)) :
                    \A h \in 1..k : a[Len(a) - h + 1] = b[Len(b) - h + 1]}
    IN  CHOOSE k \in same : \A h \in same : h <= k

\* the longest common subsequence of two strings with no common prefix
LcsMiddle(a, b) ==
    LET q == CommonSuffix(a, b)
        ma == SubSeq(a, 1, Len(a) - q)
        mb == SubSeq(b, 1, Len(b) - q)
    IN  q + LcsRows(ma, mb, 1, [j \in 1..(Len(mb) + 1) |-> 0])

\* the length of the longest common subsequence of a and b: the common
\* prefix and the common suffix of what follows it are part of it, the
\* table is built for what lies between
Lcs(a, b) ==
    LET p == CommonPrefix(a, b)
    IN  p + LcsMiddle(SubSeq(a, p + 1, Len(a)), SubSeq(b, p + 1, Len(b)))

\* the ratio of two strings: <<2*matches, total length>>; two empty strings are equal
Ratio(a, b) ==
    IF Len(a) + Len(b) = 0 THEN <<1, 1>> ELSE <<2 * Lcs(a, b), Len(a) + Len(b)>>

\* p > q for fractions with positive denominators
RatioGt(p, q) == p[1] * q[2] > q[1] * p[2]

\* find_best_match(items, s, case_sensitive=False) for a non-empty items:
\* the first index of the greatest ratio
find_best_match(items, s) ==
    LET diff_ratios == [k \in 1..Len(items) |-> Ratio(lower(items[k]), lower(s))] \o <<>>
        best == CHOOSE k \in 1..Len(items) :
                    /\ \A h \in 1..Len(items) : ~RatioGt(diff_ratios[h], diff_ratios[k])
                    /\ \A h \in 1..(k - 1) : RatioGt(diff_ratios[k], diff_ratios[h])
    IN  [match_index |-> best, match_str |-> items[best], ratio |-> diff_ratios[best]]

(***************************************************************************)
(* The tables.  FjcIntegratedDatabase is reference data the command never  *)
(* writes; DocketUniverse is the pool the initial Docket table is drawn    *)
(* from.  A null foreign key is written 0.                                 *)
(***************************************************************************)
CV_2017 == "CV_2017"

Courts == {"nysd", "cand"}

\* Python's None (falsy, like the empty string)
None == "None"

QueueNames == {"batch1", "celery"}

Smith == <<"S","m","i","t","h">>

Jones == <<"J","o","n","e","s">>

Doe == <<"D","o","e">>

Roe == <<"R","o","e">>

\* a party name of 72 characters
Acme == <<"A","c","m","e">> \o [k \in 1..68 |-> "x"]

Bolt == <<"B","o","l","t">>

CivilNumber == <<"1",":","2","0","-","c","v","-","0","0","1","2","3">>

CriminalNumber == <<"1",":","2","0","-","C","R","-","0","0","1","2","3">>

FjcIntegratedDatabase ==
    { [pk |-> 14, dataset_source |-> CV_2017, district |-> "nysd",
       docket_number |-> "2000456", plaintiff |-> Acme, defendant |-> Bolt],
      [pk |-> 11, dataset_source |-> CV_2017, district |-> "nysd",
       docket_number |-> "2000123", plaintiff |-> Smith, defendant |-> Jones],
      [pk |-> 13, dataset_source |-> "CV_OLD", district |-> "nysd",
       docket_number |-> "2000123", plaintiff |-> Smith, defendant |-> Jones],
      [pk |-> 12, dataset_source |-> CV_2017, district |-> "cand",
       docket_number |-> "2000123", plaintiff |-> Doe, defendant |-> Roe],
      [pk |-> 16, dataset_source |-> CV_2017, district |-> "nysd",
       docket_number |-> "2000789", plaintiff |-> Doe, defendant |-> Roe] }

IdbRow(pk) == CHOOSE r \in FjcIntegratedDatabase : r.pk = pk

NewDocket(court, core, number, name, idb) ==
    [court |-> court, docket_number_core |-> core, docket_number |-> number,
     case_name |-> name, idb_data |-> idb, pacer_case_id |-> None]

DocketUniverse ==
    <<  NewDocket("nysd", "2000123", CivilNumber, FormatV(Smith, Jones), 0),
        NewDocket("nysd", "2000123", CivilNumber, FormatV(Doe, Roe), 0),
        NewDocket("nysd", "2000123", CriminalNumber, FormatV(Smith, Jones), 0),
        NewDocket("nysd", "2000123", CivilNumber,
                  FormatV(<<"S","e","a","l","e","d">>, Doe), 0),
        \* "Smith v. Jonexxxxxxxxxxxxx": ratio 26/40 against "Smith v. Jones"
        NewDocket("nysd", "2000123", CivilNumber,
                  FormatV(Smith, <<"J","o","n","e">> \o [k \in 1..13 |-> "x"]), 0),
        NewDocket("cand", "2000123", CivilNumber, FormatV(Smith, Jones), 0),
        NewDocket("nysd", "2000456", CivilNumber,
                  Acme \o <<" ","v","s","."," ">> \o Bolt, 0),
        NewDocket("nysd", "2000123", CivilNumber,
                  <<"I","n"," ","r","e"," ","S","E","A","R","C","H"," ",
                    "W","a","r","r","a","n","t">>, 0),
        NewDocket("nysd", "2000123", CivilNumber,
                  <<"S","U","P","P","R","E","S","S","E","D">>, 0),
        NewDocket("nysd", "2000456", CivilNumber, FormatV(Acme, Bolt), 0) >>

(***************************************************************************)
(* do_heuristic_match and the candidate query of join_fjc_with_dockets.    *)
(***************************************************************************)
TRUNCATE_AT == 30

\* a threshold that accepts a ratio of exactly 0.65
GoodMatchAtLeast(ratio) == ~RatioGt(<<65, 100>>, ratio)

\* results["ratio"] > 0.65, the ratio and the threshold as exact fractions
GoodMatch(ratio) == RatioGt(ratio, <<65, 100>>)

\* lines 40-48: the name a candidate docket is scored by
CandidateName(d) ==
    LET case_name == harmonize(d.case_name)
        parts == split(lower(case_name), V_SEP)
    IN  IF Len(parts) = 2
        THEN FormatV(Slice(parts[1], TRUNCATE_AT), Slice(parts[2], TRUNCATE_AT))
        ELSE case_name

\* lines 49-51
IdbCaseName(idb_row) == harmonize(FormatV(idb_row.plaintiff, idb_row.defendant))

\* ds[results["match_index"]]: the list is zero-based, the sequence one-based
PickMatch(ds, results) == ds[results.match_index]

\* do_heuristic_match(idb_row, ds) for ds a sequence of Docket pks in the
\* order the queryset yields them: the Docket pk, or 0 for None
\* lines 53-67: the Docket pk, or 0 for None
MatchOrNone(ds, results) ==
    [results |-> results,
     d |-> IF GoodMatch(results.ratio) THEN PickMatch(ds, results) ELSE 0]

do_heuristic_match(idb_row, ds) ==
    LET case_names == [k \in 1..Len(ds) |-> CandidateName(dockets[ds[k]])] \o <<>>
    IN  MatchOrNone(ds, find_best_match(case_names, IdbCaseName(idb_row)))

\* exclusions by contains, which honours case, in place of icontains
ExcludedCaseSensitive(d) ==
    \/ Find(d.docket_number, <<"c","r">>, 1) # 0
    \/ Find(d.case_name, <<"s","e","a","l","e","d">>, 1) # 0
    \/ Find(d.case_name, <<"s","u","p","p","r","e","s","s","e","d">>, 1) # 0
    \/ Find(d.case_name,
            <<"s","e","a","r","c","h"," ","w","a","r","r","a","n","t">>, 1) # 0

\* the four .exclude() calls, lines 135-138
Excluded(d) ==
    \/ icontains(d.docket_number, <<"c","r">>)
    \/ icontains(d.case_name, <<"s","e","a","l","e","d">>)
    \/ icontains(d.case_name, <<"s","u","p","p","r","e","s","s","e","d">>)
    \/ icontains(d.case_name,
                 <<"s","e","a","r","c","h"," ","w","a","r","r","a","n","t">>)

\* a filter on the docket number alone
KeyMatchesNumberOnly(d, idb_row) == d.docket_number_core = idb_row.docket_number

\* the .filter() call, lines 131-134
KeyMatches(d, idb_row) ==
    /\ d.docket_number_core = idb_row.docket_number
    /\ d.court = idb_row.district

\* a query that leaves out the dockets that already have IDB data
CandidatesUnreconciled(idb_row) ==
    {pk \in DOMAIN dockets :
        /\ KeyMatches(dockets[pk], idb_row)
        /\ ~Excluded(dockets[pk])
        /\ dockets[pk].idb_data = 0}

\* the queryset ds of lines 130-139, as the set of its Docket pks
Candidates(idb_row) ==
    {pk \in DOMAIN dockets :
        KeyMatches(dockets[pk], idb_row) /\ ~Excluded(dockets[pk])}

\* the orders in which an unordered queryset may yield its rows
Orders(S) ==
    {o \in [1..Cardinality(S) -> S] : \A a, b \in DOMAIN o : a # b => o[a] # o[b]}

RECURSIVE OrderByPk(_)
\* .order_by("pk") of a set of pks
OrderByPk(S) ==
    IF S = {} THEN <<>>
    ELSE LET m == CHOOSE x \in S : \A y \in S : x <= y
         IN  <<m>> \o OrderByPk(S \ {m})

\* lines 113-117: the queryset idb_rows
IdbQuery(court_id) ==
    OrderByPk({r.pk : r \in {x \in FjcIntegratedDatabase :
                        /\ x.dataset_source = CV_2017
                        /\ (court_id # None => x.district = court_id)}})

(***************************************************************************)
(* The celery tasks of cl.recap.tasks, by their effect on the Docket table.*)
(***************************************************************************)
CREATE == "create_new_docket_from_idb"

MERGE == "merge_docket_with_idb"

Job(task, d, idb, q) == [task |-> task, d |-> d, idb |-> idb, queue |-> q]

\* the pk the database gives the next Docket row
NextDocketPk(table) ==
    IF DOMAIN table = {} THEN 1
    ELSE 1 + (CHOOSE m \in DOMAIN table : \A k \in DOMAIN table : k <= m)

\* create_new_docket_from_idb(idb_pk): a new Docket row made from the IDB row
create_new_docket_from_idb(table, idb_pk) ==
    LET idb_row == IdbRow(idb_pk)
        pk == NextDocketPk(table)
    IN  [k \in DOMAIN table \cup {pk} |->
            IF k = pk
            THEN NewDocket(idb_row.district, idb_row.docket_number, <<>>,
                           FormatV(idb_row.plaintiff, idb_row.defendant), idb_pk)
            ELSE table[k]]

\* merge_docket_with_idb(d_pk, idb_pk): the Docket row gets the IDB row's data
merge_docket_with_idb(table, d_pk, idb_pk) ==
    IF d_pk \in DOMAIN table
    THEN [table EXCEPT ![d_pk].idb_data = idb_pk]
    ELSE table

RunTask(table, job) ==
    IF job.task = CREATE
    THEN create_new_docket_from_idb(table, job.idb)
    ELSE IF job.task = MERGE
    THEN merge_docket_with_idb(table, job.d, job.idb)
    ELSE table

CHAIN == "get_pacer_case_id_and_title|update_docket_from_hidden_api"

\* the case id PACER knows a case by
PACER_CASE_ID == "98765"

\* the chain of update_case_ids: get_pacer_case_id_and_title looks the case
\* up in PACER and update_docket_from_hidden_api stores the identifier on
\* the docket; a lookup that finds no case leaves the docket as it is
update_docket_from_hidden_api(table, d_pk) ==
    IF d_pk \in DOMAIN table
    THEN {table, [table EXCEPT ![d_pk].pacer_case_id = PACER_CASE_ID]}
    ELSE {table}

\* the Docket tables a job may leave behind
Outcomes(table, job) ==
    IF job.task = CHAIN
    THEN update_docket_from_hidden_api(table, job.d)
    ELSE {RunTask(table, job)}

\* CeleryThrottle.maybe_wait() returns once the queue is short enough
ThrottleOpen == Len(queue) <= ThrottleItems

(***************************************************************************)
(* The command.                                                            *)
(***************************************************************************)
NoResults == [match_index |-> 0, match_str |-> <<>>, ratio |-> <<0, 1>>]

Call(task, d, idb_pk, how, q, ds, results) ==
    [pass |-> pass, i |-> i, task |-> task, d |-> d, idb |-> idb_pk,
     how |-> how, queue |-> q, count |-> Len(ds), ds |-> ds, results |-> results]

\* options as the argument parser of add_arguments builds them (no court_id
\* key), or as a caller hands them to the static method directly
ParsedOptions(task) ==
    {[task |-> task, queue |-> q, offset |-> o, limit |-> l] :
        q \in QueueNames, o \in 0..MaxOffset, l \in 0..MaxLimit}

DirectOptions(task) ==
    {[task |-> task, queue |-> q, offset |-> o, limit |-> l, court_id |-> c] :
        q \in QueueNames, o \in 0..MaxOffset, l \in 0..MaxLimit,
        c \in Courts \cup {None}}

\* if i < options["offset"]: continue
BeforeOffset == i < options.offset

\* a limit that counts from the offset
AtLimitAdditive == i >= options.offset + options.limit /\ options.limit > 0

\* if i >= options["limit"] > 0: break
AtLimit == i >= options.limit /\ options.limit > 0

InitMerge ==
    /\ options \in ParsedOptions("merge_and_create") \cup DirectOptions("merge_and_create")
    /\ pc = "start"
    /\ pass = 1
    /\ i = 0
    /\ idb_rows = <<>>
    /\ \E S \in SUBSET DOMAIN DocketUniverse :
          /\ Cardinality(S) <= MaxDockets
          /\ dockets = [pk \in S |-> DocketUniverse[pk]]
    /\ queue = <<>>
    /\ calls = <<>>
    /\ n_ds = 0
    /\ session = 0
    /\ cookie_jobs = 0
    /\ processed = 0
    /\ logins = <<>>
    /\ stream = <<>>
    /\ waits = 0
    /\ raised = -1
    /\ NoPrayers

\* handle, and join_fjc_with_dockets down to the loop (lines 104-121);
\* options["court_id"] raises KeyError when the key is missing
StartMerge ==
    /\ pc = "start"
    /\ options.task = "merge_and_create"
    /\ IF "court_id" \in DOMAIN options
       THEN /\ idb_rows' = IdbQuery(options.court_id)
            /\ pc' = "loop"
       ELSE /\ idb_rows' = <<>>
            /\ pc' = "error"
    /\ i' = 0
    /\ waits' = 0
    /\ raised' = -1
    /\ UNCHANGED <<options, pass, dockets, queue, calls>>
    /\ UNCHANGED update_vars
    /\ UNCHANGED prayer_vars

\* the iterator is exhausted: the for loop ends
MergeExhausted ==
    /\ pc = "loop"
    /\ options.task = "merge_and_create"
    /\ i >= Len(idb_rows)
    /\ pc' = "done"
    /\ UNCHANGED <<options, pass, i, idb_rows, dockets, queue, calls, waits, raised>>
    /\ UNCHANGED update_vars
    /\ UNCHANGED prayer_vars

\* lines 125-126
MergeSkip ==
    /\ pc = "loop"
    /\ options.task = "merge_and_create"
    /\ i < Len(idb_rows)
    /\ BeforeOffset
    /\ i' = i + 1
    /\ UNCHANGED <<options, pc, pass, idb_rows, dockets, queue, calls, waits, raised>>
    /\ UNCHANGED update_vars
    /\ UNCHANGED prayer_vars

\* lines 127-128
MergeBreak ==
    /\ pc = "loop"
    /\ options.task = "merge_and_create"
    /\ i < Len(idb_rows)
    /\ ~BeforeOffset
    /\ AtLimit
    /\ pc' = "done"
    /\ UNCHANGED <<options, pass, i, idb_rows, dockets, queue, calls, waits, raised>>
    /\ UNCHANGED update_vars
    /\ UNCHANGED prayer_vars

\* a heuristic branch that sends its create to the queue
DirectCallCreateSent(idb_row, ds, m) ==
    IF m.d # 0
    THEN Call(MERGE, m.d, idb_row.pk, "call", None, ds, m.results)
    ELSE Call(CREATE, 0, idb_row.pk, "apply_async", options.queue, ds, m.results)

\* lines 160-164: the task is called, not sent, after the heuristic match m
DirectCall(idb_row, ds, m) ==
    IF m.d # 0
    THEN Call(MERGE, m.d, idb_row.pk, "call", None, ds, m.results)
    ELSE Call(CREATE, 0, idb_row.pk, "call", None, ds, m.results)

\* a loop body whose single-candidate branch lacks its continue, and goes on
\* to the heuristic match
LoopBodyNoContinue(idb_row, ds) ==
    IF Len(ds) = 0
    THEN <<Call(CREATE, 0, idb_row.pk, "apply_async", options.queue, ds, NoResults)>>
    ELSE IF Len(ds) = 1
    THEN <<Call(MERGE, ds[1], idb_row.pk, "apply_async", options.queue, ds, NoResults),
           DirectCall(idb_row, ds, do_heuristic_match(idb_row, ds))>>
    ELSE <<DirectCall(idb_row, ds, do_heuristic_match(idb_row, ds))>>

\* a loop body that scores the name of a single candidate too
LoopBodyAlwaysScores(idb_row, ds) ==
    IF Len(ds) = 0
    THEN <<Call(CREATE, 0, idb_row.pk, "apply_async", options.queue, ds, NoResults)>>
    ELSE <<DirectCall(idb_row, ds, do_heuristic_match(idb_row, ds))>>

\* the task calls the loop body makes for idb_row when the queryset yields
\* the candidates ds, lines 140-164: each branch ends the pass of the loop
LoopBody(idb_row, ds) ==
    IF Len(ds) = 0
    THEN <<Call(CREATE, 0, idb_row.pk, "apply_async", options.queue, ds, NoResults)>>
    ELSE IF Len(ds) = 1
    THEN <<Call(MERGE, ds[1], idb_row.pk, "apply_async", options.queue, ds, NoResults)>>
    ELSE <<DirectCall(idb_row, ds, do_heuristic_match(idb_row, ds))>>

JobOf(c) == Job(c.task, c.d, c.idb, c.queue)

\* the jobs that apply_async puts on the queue, in the order of the calls
Sent(cs) ==
    LET sent == SelectSeq(cs, LAMBDA c : c.how = "apply_async")
    IN  [k \in 1..Len(sent) |-> JobOf(sent[k])]

RECURSIVE RunDirect(_, _)
\* the Docket table after the tasks that are called directly have returned
RunDirect(table, cs) ==
    IF cs = <<>> THEN table
    ELSE RunDirect(IF Head(cs).how = "call" THEN RunTask(table, JobOf(Head(cs)))
                   ELSE table,
                   Tail(cs))

\* line 129, for an item inside the window: throttle.maybe_wait() returns
MergeWait ==
    /\ pc = "loop"
    /\ options.task = "merge_and_create"
    /\ i < Len(idb_rows)
    /\ ~BeforeOffset
    /\ ~AtLimit
    /\ ThrottleOpen
    /\ pc' = "throttled"
    /\ waits' = waits + 1
    /\ UNCHANGED <<options, pass, i, idb_rows, dockets, queue, calls, raised>>
    /\ UNCHANGED update_vars
    /\ UNCHANGED prayer_vars

\* a loop body that makes its task call before it consults the throttle
ProcessRecordUnthrottled ==
    /\ pc = "loop"
    /\ options.task = "merge_and_create"
    /\ i < Len(idb_rows)
    /\ ~BeforeOffset
    /\ ~AtLimit
    /\ LET idb_row == IdbRow(idb_rows[i + 1])
       IN  \E ds \in Orders(Candidates(idb_row)) :
           \E cs \in {LoopBody(idb_row, ds)} :
              /\ calls' = calls \o cs
              /\ queue' = queue \o Sent(cs)
              /\ dockets' = RunDirect(dockets, cs)
    /\ i' = i + 1
    /\ pc' = "loop"
    /\ UNCHANGED <<options, pass, idb_rows, waits, raised>>
    /\ UNCHANGED update_vars
    /\ UNCHANGED prayer_vars

\* the rest of the loop body for that item, lines 130-164
ProcessRecord ==
    /\ pc = "throttled"
    /\ options.task = "merge_and_create"
    /\ LET idb_row == IdbRow(idb_rows[i + 1])
       IN  \E ds \in Orders(Candidates(idb_row)) :
           \E cs \in {LoopBody(idb_row, ds)} :
              /\ calls' = calls \o cs
              /\ queue' = queue \o Sent(cs)
              /\ dockets' = RunDirect(dockets, cs)
    /\ i' = i + 1
    /\ pc' = "loop"
    /\ UNCHANGED <<options, pass, idb_rows, waits, raised>>
    /\ UNCHANGED update_vars
    /\ UNCHANGED prayer_vars

\* a loop body that catches what it raises and goes on to the next item
RecordFailsCaught ==
    /\ pc = "throttled"
    /\ options.task = "merge_and_create"
    /\ pc' = "loop"
    /\ raised' = i
    /\ i' = i + 1
    /\ UNCHANGED <<options, pass, idb_rows, dockets, queue, calls, waits>>
    /\ UNCHANGED update_vars
    /\ UNCHANGED prayer_vars

\* the loop body raises for that item (the candidate query, the scorer or a
\* task called directly): nothing in the loop or in handle catches it, and
\* the command ends
RecordFails ==
    /\ pc = "throttled"
    /\ options.task = "merge_and_create"
    /\ pc' = "error"
    /\ raised' = i
    /\ UNCHANGED <<options, pass, i, idb_rows, dockets, queue, calls, waits>>
    /\ UNCHANGED update_vars
    /\ UNCHANGED prayer_vars

\* a celery worker takes the oldest job off the queue and runs it
RunJob ==
    /\ queue # <<>>
    /\ \E table \in Outcomes(dockets, Head(queue)) : dockets' = table
    /\ queue' = Tail(queue)
    /\ UNCHANGED <<options, pc, pass, i, idb_rows, calls, waits, raised>>
    /\ UNCHANGED update_vars
    /\ UNCHANGED prayer_vars

\* the operator runs the command again with the same options, once the
\* jobs of the run before have completed
Rerun ==
    /\ pc = "done"
    /\ queue = <<>>
    /\ pass = 1
    /\ pass' = pass + 1
    /\ pc' = "start"
    /\ i' = 0
    /\ UNCHANGED <<options, idb_rows, dockets, queue, calls, waits, raised>>
    /\ UNCHANGED update_vars
    /\ UNCHANGED prayer_vars

Next ==
    \/ StartMerge
    \/ MergeExhausted
    \/ MergeSkip
    \/ MergeBreak
    \/ MergeWait
    \/ ProcessRecord
    \/ RecordFails
    \/ RunJob

Spec == InitMerge /\ [][Next]_vars

\* runs of merge_and_create followed by a re-run with the same options
NextRerun ==
    \/ StartMerge
    \/ MergeExhausted
    \/ MergeSkip
    \/ MergeBreak
    \/ MergeWait
    \/ ProcessRecord
    \/ RecordFails
    \/ RunJob
    \/ Rerun

\* the command run with the default queue
InitRerun == InitMerge /\ options.queue = "batch1"

SpecRerun == InitRerun /\ [][NextRerun]_vars

(***************************************************************************)
(* update_any_missing_pacer_case_ids.  The queryset streams the dockets of *)
(* the table that it selects and, after them, n_ds further dockets that    *)
(* the model knows by their position only (a run over thousands of items   *)
(* keeps no table).                                                        *)
(***************************************************************************)
REAUTH_EVERY == 5000

MaxItems == 10001

UpdateOffsets == {0, 1, REAUTH_EVERY - 1, REAUTH_EVERY}

UpdateLimits == {0, REAUTH_EVERY + 1}

\* dockets for update_case_ids: three with IDB data and no PACER case id,
\* one without IDB data, one that has its PACER case id
UpdateUniverse ==
    <<  NewDocket("nysd", "2000123", CivilNumber, FormatV(Smith, Jones), 11),
        NewDocket("cand", "2000123", CivilNumber, FormatV(Doe, Roe), 12),
        NewDocket("nysd", "2000789", CivilNumber, FormatV(Doe, Roe), 16),
        NewDocket("nysd", "2000123", CivilNumber, FormatV(Doe, Roe), 0),
        [NewDocket("nysd", "2000456", CivilNumber, FormatV(Acme, Bolt), 14)
            EXCEPT !.pacer_case_id = PACER_CASE_ID] >>

\* line 172: the queryset ds, as the set of its Docket pks; it has no order_by
UpdateQuery ==
    {pk \in DOMAIN dockets :
        dockets[pk].idb_data # 0 /\ dockets[pk].pacer_case_id = None}

\* the number of items the iterator yields
StreamLen == Len(stream) + n_ds

\* the docket at the index the loop is at: its pk, or 0 for a docket known
\* by its position only
StreamItem == IF i < Len(stream) THEN stream[i + 1] ELSE 0

\* a re-login after every 5000 items dispatched
ReauthDueByProcessed == processed > 0 /\ processed % REAUTH_EVERY = 0

\* if i % 5000 == 0
ReauthDue == i % REAUTH_EVERY = 0

\* a run over thousands of items
InitUpdate ==
    /\ options \in {[task |-> "update_case_ids", queue |-> q, offset |-> o, limit |-> l] :
                        q \in QueueNames, o \in UpdateOffsets, l \in UpdateLimits}
    /\ pc = "start"
    /\ pass = 1
    /\ i = 0
    /\ idb_rows = <<>>
    /\ dockets = <<>>
    /\ queue = <<>>
    /\ calls = <<>>
    /\ n_ds \in {2, MaxItems}
    /\ session = 0
    /\ cookie_jobs = 0
    /\ processed = 0
    /\ logins = <<>>
    /\ stream = <<>>
    /\ waits = 0
    /\ raised = -1
    /\ NoPrayers

\* a run over a Docket table
InitUpdateTable ==
    /\ options \in ParsedOptions("update_case_ids")
    /\ pc = "start"
    /\ pass = 1
    /\ i = 0
    /\ idb_rows = <<>>
    /\ \E S \in SUBSET DOMAIN UpdateUniverse :
          /\ Cardinality(S) <= MaxDockets
          /\ dockets = [pk \in S |-> UpdateUniverse[pk]]
    /\ queue = <<>>
    /\ calls = <<>>
    /\ n_ds = 0
    /\ session = 0
    /\ cookie_jobs = 0
    /\ processed = 0
    /\ logins = <<>>
    /\ stream = <<>>
    /\ waits = 0
    /\ raised = -1
    /\ NoPrayers

\* handle, and lines 172-178: the queryset, in an order the database picks,
\* and the first PacerSession and its login
StartUpdate ==
    /\ pc = "start"
    /\ options.task = "update_case_ids"
    /\ \E o \in Orders(UpdateQuery) : stream' = o
    /\ session' = session + 1
    /\ cookie_jobs' = 0
    /\ processed' = 0
    /\ logins' = <<>>
    /\ i' = 0
    /\ pc' = "loop"
    /\ waits' = 0
    /\ raised' = -1
    /\ UNCHANGED <<options, pass, n_ds>>
    /\ UNCHANGED merge_vars
    /\ UNCHANGED prayer_vars

UpdateExhausted ==
    /\ pc = "loop"
    /\ options.task = "update_case_ids"
    /\ i >= StreamLen
    /\ pc' = "done"
    /\ UNCHANGED <<options, pass, i, waits, raised>>
    /\ UNCHANGED merge_vars
    /\ UNCHANGED update_vars
    /\ UNCHANGED prayer_vars

\* lines 180-181
UpdateSkip ==
    /\ pc = "loop"
    /\ options.task = "update_case_ids"
    /\ i < StreamLen
    /\ BeforeOffset
    /\ i' = i + 1
    /\ UNCHANGED <<options, pc, pass, waits, raised>>
    /\ UNCHANGED merge_vars
    /\ UNCHANGED update_vars
    /\ UNCHANGED prayer_vars

\* lines 182-183
UpdateBreak ==
    /\ pc = "loop"
    /\ options.task = "update_case_ids"
    /\ i < StreamLen
    /\ ~BeforeOffset
    /\ AtLimit
    /\ pc' = "done"
    /\ UNCHANGED <<options, pass, i, waits, raised>>
    /\ UNCHANGED merge_vars
    /\ UNCHANGED update_vars
    /\ UNCHANGED prayer_vars

\* lines 185-193, for an item inside the window: the re-login when it is
\* due, and throttle.maybe_wait() returns
UpdateWait ==
    /\ pc = "loop"
    /\ options.task = "update_case_ids"
    /\ i < StreamLen
    /\ ~BeforeOffset
    /\ ~AtLimit
    /\ ThrottleOpen
    /\ IF ReauthDue
       THEN /\ session' = session + 1
            /\ logins' = Append(logins, [i |-> i, processed |-> processed])
            /\ cookie_jobs' = 0
       ELSE UNCHANGED <<session, logins, cookie_jobs>>
    /\ pc' = "throttled"
    /\ waits' = waits + 1
    /\ UNCHANGED <<options, pass, i, n_ds, processed, stream, raised>>
    /\ UNCHANGED merge_vars
    /\ UNCHANGED prayer_vars

\* the rest of the loop body for that item, lines 194-205: the chain is sent
\* with the cookies of the session
UpdateRecord ==
    /\ pc = "throttled"
    /\ options.task = "update_case_ids"
    /\ \E d \in {StreamItem} :
          /\ queue' = Append(queue,
                [task |-> CHAIN, d |-> d,
                 idb |-> IF d = 0 THEN 0 ELSE dockets[d].idb_data,
                 queue |-> options.queue, cookies |-> session])
          /\ calls' = IF d = 0 THEN calls
                      ELSE Append(calls, Call(CHAIN, d, dockets[d].idb_data,
                                              "apply_async", options.queue,
                                              <<>>, NoResults))
    /\ cookie_jobs' = cookie_jobs + 1
    /\ processed' = processed + 1
    /\ i' = i + 1
    /\ pc' = "loop"
    /\ UNCHANGED <<options, pass, n_ds, session, logins, stream, waits, raised>>
    /\ UNCHANGED <<idb_rows, dockets>>
    /\ UNCHANGED prayer_vars

NextUpdate ==
    \/ StartUpdate
    \/ UpdateExhausted
    \/ UpdateSkip
    \/ UpdateBreak
    \/ UpdateWait
    \/ UpdateRecord
    \/ RunJob

SpecUpdate == InitUpdate /\ [][NextUpdate]_vars

\* the operator resumes a run over the positions before k with a run from
\* offset k on, once the jobs of the first run have completed
Resume ==
    /\ pc = "done"
    /\ queue = <<>>
    /\ pass = 1
    /\ options.offset = 0
    /\ options.limit > 0
    /\ options' = [options EXCEPT !.offset = options.limit, !.limit = 0]
    /\ pass' = pass + 1
    /\ pc' = "start"
    /\ i' = 0
    /\ UNCHANGED <<idb_rows, dockets, queue, calls, waits, raised>>
    /\ UNCHANGED update_vars
    /\ UNCHANGED prayer_vars

InitResume ==
    \/ InitUpdateTable
    \/ InitMerge /\ "court_id" \in DOMAIN options /\ options.offset = 0

\* both tasks of the command, each run resumed once
NextResume ==
    \/ StartMerge
    \/ MergeExhausted
    \/ MergeSkip
    \/ MergeBreak
    \/ MergeWait
    \/ ProcessRecord
    \/ RecordFails
    \/ StartUpdate
    \/ UpdateExhausted
    \/ UpdateSkip
    \/ UpdateBreak
    \/ UpdateWait
    \/ UpdateRecord
    \/ RunJob
    \/ Resume

SpecResume == InitResume /\ [][NextResume]_vars

(***************************************************************************)
(* cl/favorites/utils.py: prayers (requests for a document) and the mail   *)
(* sent when the document arrives.  create_prayer is a coroutine that      *)
(* awaits two queries; send_prayer_emails runs three statements against    *)
(* the database and the mail connection.  Calls run concurrently, each a   *)
(* step at a time; a step is one query or one statement.                   *)
(***************************************************************************)
ALLOWED_PRAYER_COUNT == 2

\* timedelta(hours=24)
HOURS == 24

MaxNow == 48

MaxProcs == 3

Users == {"ann", "bob"}

RECAPDocuments == {"rd1", "rd2", "rd3"}

WAITING == "WAITING"

GRANTED == "GRANTED"

\* lines 27-33: the prayers of the user created in the last 24 hours
prayer_count(user) ==
    LET last_24_hours == now - HOURS
    IN  Cardinality({id \in DOMAIN prayers :
                        /\ prayers[id].user = user
                        /\ prayers[id].date_created >= last_24_hours})

\* prayer_eligible(user)
prayer_eligible(user) == prayer_count(user) < ALLOWED_PRAYER_COUNT

\* a call in flight: its arguments, where it is at, and its local values
Proc(op, at, user, rd, is_available) ==
    [op |-> op, at |-> at, user |-> user, rd |-> rd,
     is_available |-> is_available, email_recipients |-> {}, granted |-> {}]

\* the rows open_prayers selects: lines 151-153
open_prayers(rd) ==
    {id \in DOMAIN prayers :
        prayers[id].recap_document = rd /\ prayers[id].status = WAITING}

\* create_prayer(user, recap_document) is called with a RECAPDocument object
\* that the caller has loaded
CallCreatePrayer ==
    /\ Len(procs) < MaxProcs
    /\ \E user \in Users, rd \in RECAPDocuments :
          procs' = Append(procs, Proc("create_prayer", "prayer_eligible",
                                      user, rd, rd \in available))
    /\ UNCHANGED <<prayers, now, available, outbox>>
    /\ UNCHANGED driver_vars

\* line 41: await prayer_eligible(user), and the object's is_available
CreatePrayerEligible ==
    /\ \E p \in DOMAIN procs :
          /\ procs[p].op = "create_prayer"
          /\ procs[p].at = "prayer_eligible"
          /\ procs' = [procs EXCEPT ![p].at =
                          IF prayer_eligible(procs[p].user) /\ ~procs[p].is_available
                          THEN "aget_or_create" ELSE "return"]
    /\ UNCHANGED <<prayers, now, available, outbox>>
    /\ UNCHANGED driver_vars

\* lines 42-45: await Prayer.objects.aget_or_create(user, recap_document)
CreatePrayerGetOrCreate ==
    /\ \E p \in DOMAIN procs :
          /\ procs[p].op = "create_prayer"
          /\ procs[p].at = "aget_or_create"
          /\ procs' = [procs EXCEPT ![p].at = "return"]
          /\ IF \E id \in DOMAIN prayers :
                   /\ prayers[id].user = procs[p].user
                   /\ prayers[id].recap_document = procs[p].rd
             THEN prayers' = prayers
             ELSE prayers' = Append(prayers,
                     [user |-> procs[p].user, recap_document |-> procs[p].rd,
                      status |-> WAITING, date_created |-> now])
    /\ UNCHANGED <<now, available, outbox>>
    /\ UNCHANGED driver_vars

\* the document arrives, and send_prayer_emails(instance) is called for it
CallSendPrayerEmails ==
    /\ Len(procs) < MaxProcs
    /\ \E rd \in RECAPDocuments \ available :
          /\ available' = available \cup {rd}
          /\ procs' = Append(procs, Proc("send_prayer_emails", "email_recipients",
                                         None, rd, TRUE))
    /\ UNCHANGED <<prayers, now, outbox>>
    /\ UNCHANGED driver_vars

\* lines 155-161: the recipients are read
SendReadRecipients ==
    /\ \E p \in DOMAIN procs :
          /\ procs[p].op = "send_prayer_emails"
          /\ procs[p].at = "email_recipients"
          /\ procs' = [procs EXCEPT
                ![p].at = "update",
                ![p].email_recipients =
                    {[email |-> prayers[id].user,
                      date_created |-> prayers[id].date_created] :
                        id \in open_prayers(procs[p].rd)}]
    /\ UNCHANGED <<prayers, now, available, outbox>>
    /\ UNCHANGED driver_vars

\* line 162: open_prayers.update(status=Prayer.GRANTED), the queryset
\* evaluated anew
SendUpdate ==
    /\ \E p \in DOMAIN procs :
          /\ procs[p].op = "send_prayer_emails"
          /\ procs[p].at = "update"
          /\ prayers' = [id \in DOMAIN prayers |->
                            IF id \in open_prayers(procs[p].rd)
                            THEN [prayers[id] EXCEPT !.status = GRANTED]
                            ELSE prayers[id]]
          /\ procs' = [procs EXCEPT ![p].at = "send_messages",
                                    ![p].granted = open_prayers(procs[p].rd)]
    /\ UNCHANGED <<now, available, outbox>>
    /\ UNCHANGED driver_vars

\* lines 165-199: one message to each recipient that was read
SendMessages ==
    /\ \E p \in DOMAIN procs :
          /\ procs[p].op = "send_prayer_emails"
          /\ procs[p].at = "send_messages"
          /\ outbox' = outbox \cup
                {[by |-> p, to |-> r.email, rd |-> procs[p].rd] :
                    r \in procs[p].email_recipients}
          /\ procs' = [procs EXCEPT ![p].at = "return"]
    /\ UNCHANGED <<prayers, now, available>>
    /\ UNCHANGED driver_vars

\* time passes
Tick ==
    /\ now < MaxNow
    /\ now' = now + HOURS \div 2
    /\ UNCHANGED <<prayers, available, procs, outbox>>
    /\ UNCHANGED driver_vars

InitPrayer ==
    /\ NoPrayers
    /\ options = [task |-> None]
    /\ pc = "start"
    /\ pass = 1
    /\ i = 0
    /\ idb_rows = <<>>
    /\ dockets = <<>>
    /\ queue = <<>>
    /\ calls = <<>>
    /\ n_ds = 0
    /\ session = 0
    /\ cookie_jobs = 0
    /\ processed = 0
    /\ logins = <<>>
    /\ stream = <<>>
    /\ waits = 0
    /\ raised = -1

NextPrayer ==
    \/ CallCreatePrayer
    \/ CreatePrayerEligible
    \/ CreatePrayerGetOrCreate
    \/ CallSendPrayerEmails
    \/ SendReadRecipients
    \/ SendUpdate
    \/ SendMessages
    \/ Tick

SpecPrayer == InitPrayer /\ [][NextPrayer]_vars

(***************************************************************************)
(* Properties of merge_and_create.                                         *)
(***************************************************************************)
\* the calls of the current run, in order
RunCalls == SelectSeq(calls, LAMBDA c : c.pass = pass)

\* the IDB rows a run with the given options is to stream
Streamed ==
    {r \in FjcIntegratedDatabase :
        /\ r.dataset_source = CV_2017
        /\ ("court_id" \in DOMAIN options /\ options.court_id \in Courts
               => r.district = options.court_id)}

\* the position of an IDB row in the stream, by ascending primary key
Position(r) == Cardinality({x \in Streamed : x.pk < r.pk})

\* the end of the window: the limit when one is given, the end of the stream
WindowEnd ==
    IF options.limit > 0 THEN Min(options.limit, Len(idb_rows)) ELSE Len(idb_rows)

\* the markers of the four exclusions
Marked(d) ==
    \/ icontains(d.docket_number, <<"C","R">>)
    \/ \E word \in {<<"s","e","a","l","e","d">>,
                    <<"s","u","p","p","r","e","s","s","e","d">>,
                    <<"s","e","a","r","c","h"," ","w","a","r","r","a","n","t">>} :
          icontains(d.case_name, word)

\* C1, as the claim states it: a finished run with offset o and limit l > 0
\* has processed exactly the positions o..o+l-1 of the stream.
C1_WindowIsOffsetPlusLimit ==
    (pc = "done" /\ options.limit > 0) =>
        {RunCalls[n].i : n \in DOMAIN RunCalls} =
            {k \in 0..(Len(idb_rows) - 1) :
                options.offset <= k /\ k < options.offset + options.limit}

\* C1, amended: the limit is an end position, not a count.  No run makes a
\* call for a position outside offset..limit-1, calls are made in ascending
\* position and ascending primary key, one per position, each for the row at
\* that position, and a finished run has made a call for every position from
\* offset up to the limit (or the end of the stream): limit - offset calls,
\* none when limit <= offset.
C1_WindowIsOffsetToLimit ==
    /\ \A n \in DOMAIN RunCalls :
          /\ RunCalls[n].i = options.offset + n - 1
          /\ RunCalls[n].i < WindowEnd
          /\ Position(IdbRow(RunCalls[n].idb)) = RunCalls[n].i
          /\ IdbRow(RunCalls[n].idb) \in Streamed
          /\ \A m \in 1..(n - 1) : RunCalls[m].idb < RunCalls[n].idb
    /\ pc = "done" => Len(RunCalls) = Max(0, WindowEnd - options.offset)

\* C1 witness: four rows streamed, offset 1 and limit 3: two calls, not three
C1_Witness ==
    /\ pc = "done"
    /\ Len(idb_rows) = 4
    /\ options.offset = 1
    /\ options.limit = 3
    /\ Len(RunCalls) = 2

\* C2: at any moment of a run every position has at most one call; a
\* position outside the window has none; a position inside the window that
\* the loop has passed has exactly one, a create or a merge, whichever of
\* the 0-, 1- and >1-candidate branches was taken.
C2_ExactlyOneAction ==
    \A k \in 0..(Len(idb_rows) - 1) :
        LET mine == {n \in DOMAIN RunCalls : RunCalls[n].i = k}
            inside == options.offset <= k /\ ~(options.limit > 0 /\ k >= options.limit)
        IN  /\ Cardinality(mine) <= 1
            /\ ~inside => mine = {}
            /\ (inside /\ pc \in {"loop", "done"} /\ k < i) => Cardinality(mine) = 1
            /\ \A n \in mine : RunCalls[n].task \in {CREATE, MERGE}

\* C2 witness: a finished run that took all three branches and left a row
\* outside the window
C2_Witness ==
    /\ pc = "done"
    /\ options.limit = 3
    /\ Len(idb_rows) = 4
    /\ \E a, b, c \in DOMAIN RunCalls :
          RunCalls[a].count = 0 /\ RunCalls[b].count = 1 /\ RunCalls[c].count > 1

\* C3: a call made on an empty candidate set is a create of the IDB row; a
\* call made on a single candidate is a merge of that candidate with the IDB
\* row, made without scoring the names.
C3_CountDecides ==
    \A n \in DOMAIN calls :
        LET c == calls[n]
        IN  /\ c.count = 0 => c.task = CREATE /\ c.d = 0 /\ c.idb = idb_rows[c.i + 1]
            /\ c.count = 1 =>
                  /\ c.task = MERGE
                  /\ c.d = c.ds[1]
                  /\ c.idb = idb_rows[c.i + 1]
                  /\ c.results = NoResults

\* C3 witness: a single candidate whose name is no good match of the row's
\* (a ratio of 65/100 or less) is merged
C3_Witness ==
    \E n \in DOMAIN calls :
        /\ calls[n].count = 1
        /\ calls[n].task = MERGE
        /\ \E r \in {Ratio(lower(dockets[calls[n].d].case_name),
                            lower(IdbCaseName(IdbRow(calls[n].idb))))} :
              100 * r[1] <= 65 * r[2]

\* C4: with more than one candidate the call is a merge exactly when the best
\* ratio is above 65/100, the merge is with the candidate at match_index, no
\* candidate scores above the best ratio, and at 65/100 or below the call is
\* a create.
C4_ThresholdDecides ==
    \A n \in DOMAIN calls :
        LET c == calls[n]
            r == c.results.ratio
        IN  c.count > 1 =>
              /\ c.task = MERGE <=> 100 * r[1] > 65 * r[2]
              /\ c.task = CREATE <=> 100 * r[1] <= 65 * r[2]
              /\ c.task = MERGE => c.d = c.ds[c.results.match_index]
              /\ c.task = CREATE => c.d = 0
              /\ c.results.match_index \in 1..c.count

\* C4 witness: a best ratio of exactly 65/100 among two candidates: a create
C4_Witness ==
    \E n \in DOMAIN calls :
        /\ calls[n].count > 1
        /\ 100 * calls[n].results.ratio[1] = 65 * calls[n].results.ratio[2]
        /\ calls[n].task = CREATE

\* C5: no docket with a criminal docket number or a sealed, suppressed or
\* search-warrant case name is among the candidates of a call, or merged.
C5_MarkedNeverCandidate ==
    \A n \in DOMAIN calls :
        /\ \A k \in DOMAIN calls[n].ds : ~Marked(dockets[calls[n].ds[k]])
        /\ calls[n].task = MERGE => ~Marked(dockets[calls[n].d])

\* C5 witness: a merge made while a marked docket had the row's number and court
C5_Witness ==
    \E n \in DOMAIN calls :
        /\ calls[n].task = MERGE
        /\ \E pk \in DOMAIN dockets :
              /\ Marked(dockets[pk])
              /\ dockets[pk].docket_number_core = IdbRow(calls[n].idb).docket_number
              /\ dockets[pk].court = IdbRow(calls[n].idb).district

\* C6: every merge, sent or called, is of a docket with the row's docket
\* number and the row's court.
C6_MergeMatchesKey ==
    \A n \in DOMAIN calls :
        calls[n].task = MERGE =>
            /\ calls[n].d \in DOMAIN dockets
            /\ dockets[calls[n].d].docket_number_core = IdbRow(calls[n].idb).docket_number
            /\ dockets[calls[n].d].court = IdbRow(calls[n].idb).district

\* C6 witness: a sent merge and a called merge, with a docket of the same
\* number in another court in the table
C6_Witness ==
    /\ \E n, m \in DOMAIN calls :
          /\ calls[n].task = MERGE /\ calls[n].how = "apply_async"
          /\ calls[m].task = MERGE /\ calls[m].how = "call"
    /\ \E n \in DOMAIN calls, pk \in DOMAIN dockets :
          /\ calls[n].task = MERGE
          /\ dockets[pk].docket_number_core = IdbRow(calls[n].idb).docket_number
          /\ dockets[pk].court # IdbRow(calls[n].idb).district

\* C7, as the claim states it: a task is called directly only for a merge
\* that the heuristic resolved among several candidates.
C7_DirectOnlyForResolvedMerge ==
    \A n \in DOMAIN calls :
        calls[n].how = "call" <=> (calls[n].count > 1 /\ calls[n].task = MERGE)

\* C7, amended: a task is called directly, and has returned before the loop
\* goes on, exactly when there is more than one candidate, the create after
\* a failed heuristic included; with no or one candidate the task is sent to
\* the named queue and the Docket table is left as it is.
C7_DirectExactlyAboveOne ==
    [][Len(calls') = Len(calls) + 1 =>
        LET c == calls'[Len(calls')]
        IN  /\ c.how = "call" <=> c.count > 1
            /\ c.how = "call" =>
                  /\ queue' = queue
                  /\ dockets' = RunTask(dockets, Job(c.task, c.d, c.idb, None))
            /\ c.how = "apply_async" =>
                  /\ queue' = Append(queue, Job(c.task, c.d, c.idb, options.queue))
                  /\ dockets' = dockets]_vars

\* C7 witness: a create called directly, its docket in the table
C7_Witness ==
    \E n \in DOMAIN calls :
        /\ calls[n].how = "call"
        /\ calls[n].task = CREATE
        /\ \E pk \in DOMAIN dockets : dockets[pk].idb_data = calls[n].idb

(***************************************************************************)
(* Properties of update_case_ids, of re-runs and of the options.           *)
(***************************************************************************)
\* the number of multiples of REAUTH_EVERY in from..(to - 1)
MultiplesBetween(from, to) ==
    IF to <= from THEN 0
    ELSE ((to + REAUTH_EVERY - 1) \div REAUTH_EVERY)
            - ((from + REAUTH_EVERY - 1) \div REAUTH_EVERY)

\* C8, as the claim states it: the k-th re-login of a run comes when 5000*k
\* items have been dispatched, items skipped by the offset not counted, and
\* no more than 5000 chains go out with the cookies of one login.
C8_ReloginEvery5000Processed ==
    /\ \A k \in DOMAIN logins : logins[k].processed = REAUTH_EVERY * k
    /\ cookie_jobs <= REAUTH_EVERY

\* C8, amended: the session is made anew whenever the enumerate() index of
\* the item being processed is a multiple of 5000; the index counts the items
\* skipped by the offset, and index 0 logs in again right after the first
\* login.  So a re-login comes after index - offset dispatched items, there
\* is one for every multiple of 5000 the loop has processed, and no more
\* than 5000 chains go out with the cookies of one login.
C8_ReloginAtIndexMultiple ==
    /\ \A k \in DOMAIN logins :
          /\ logins[k].i % REAUTH_EVERY = 0
          /\ logins[k].i >= options.offset
          /\ logins[k].processed = logins[k].i - options.offset
    /\ pc \in {"loop", "done"} =>
          /\ Len(logins) = MultiplesBetween(options.offset, i)
          /\ session = 1 + Len(logins)
          /\ processed = Max(0, i - options.offset)
    /\ cookie_jobs <= REAUTH_EVERY
    /\ \A k \in DOMAIN queue : queue[k].cookies \in 1..session

\* C8 witness: with offset 1 the first re-login comes after 4999 dispatched
\* items, and the login after it serves 5000 chains
C8_Witness ==
    /\ Len(logins) >= 1
    /\ logins[1].processed = REAUTH_EVERY - 1
    /\ cookie_jobs = REAUTH_EVERY

\* the dockets that are candidates of the IDB row with primary key idb_pk
Matching(idb_pk) ==
    {pk \in DOMAIN dockets :
        /\ dockets[pk].docket_number_core = IdbRow(idb_pk).docket_number
        /\ dockets[pk].court = IdbRow(idb_pk).district
        /\ ~Marked(dockets[pk])}

\* C9, as the claim states it: the re-run makes no merge call for a pair of
\* docket and IDB row that the first run has merged.
C9_NoSecondMerge ==
    \A a, b \in DOMAIN calls :
        (calls[a].pass = 1 /\ calls[b].pass = 2
            /\ calls[a].task = MERGE /\ calls[b].task = MERGE)
        => <<calls[a].d, calls[a].idb>> # <<calls[b].d, calls[b].idb>>

\* C9, amended: the driver keeps no record of reconciled pairs.  A finished
\* re-run has made a call for every IDB row the first run made one for, and
\* for a row with a single candidate docket that call is a merge with that
\* docket: a pair the first run merged is merged again, and a row whose
\* docket the first run created is merged with that docket.
C9_RerunMergesAgain ==
    (pass = 2 /\ pc = "done") =>
        \A idb_pk \in {calls[a].idb : a \in DOMAIN calls} :
           \E M \in {Matching(idb_pk)} :
              /\ \A a \in DOMAIN calls :
                    (calls[a].pass = 1 /\ calls[a].idb = idb_pk) =>
                       \E b \in DOMAIN calls :
                          /\ calls[b].pass = 2
                          /\ calls[b].i = calls[a].i
                          /\ calls[b].idb = idb_pk
                          /\ (calls[a].task = MERGE /\ M = {calls[a].d})
                                => (calls[b].task = MERGE /\ calls[b].d = calls[a].d)
              /\ \A b \in DOMAIN calls :
                    (calls[b].pass = 2 /\ calls[b].idb = idb_pk /\ Cardinality(M) = 1)
                       => (calls[b].task = MERGE /\ M = {calls[b].d})

\* C9 witness: a finished re-run that has merged again a pair the first run
\* merged, the docket carrying the row's data since the first run
C9_Witness ==
    /\ pass = 2
    /\ pc = "done"
    /\ queue = <<>>
    /\ \E a, b \in DOMAIN calls :
          /\ calls[a].pass = 1 /\ calls[b].pass = 2
          /\ calls[a].task = MERGE /\ calls[b].task = MERGE
          /\ calls[a].d = calls[b].d /\ calls[a].idb = calls[b].idb
          /\ dockets[calls[a].d].idb_data = calls[a].idb

\* C10: the court filter is optional.  A run whose options are those the
\* argument parser builds (task, queue, offset, limit) gets to the loop with
\* all CV_2017 rows streamed, and a run given a court streams the rows of
\* that court; no run ends in an error before its loop.
C10_CourtFilterOptional ==
    pc # "start" =>
        /\ pc = "error" => raised >= 0
        /\ {idb_rows[k] : k \in DOMAIN idb_rows} = {r.pk : r \in Streamed}

(***************************************************************************)
(* Properties of resumed runs, of the throttle and of failures.            *)
(***************************************************************************)
\* the calls made, in either run, for the IDB row idb_pk
CallsForRow(idb_pk) == {n \in DOMAIN calls : calls[n].idb = idb_pk}

\* the calls made, in either run, for the docket d_pk
CallsForDocket(d_pk) == {n \in DOMAIN calls : calls[n].d = d_pk}

\* the dockets that update_case_ids had to process when the first run began:
\* those with IDB data that still lack their PACER case id, and those a
\* chain was sent for
ToUpdate ==
    {pk \in DOMAIN dockets :
        /\ dockets[pk].idb_data # 0
        /\ (dockets[pk].pacer_case_id = None \/ CallsForDocket(pk) # {})}

\* C11: when a run over the positions [0,k) has finished, its jobs have
\* completed and a run with offset k has finished too, every item has been
\* processed exactly once: one call for every streamed IDB row in
\* merge_and_create, one chain for every docket that lacked its PACER case
\* id in update_case_ids.
C11_ResumeExactlyOnce ==
    (pass = 2 /\ pc = "done") =>
        IF options.task = "merge_and_create"
        THEN \A r \in Streamed : Cardinality(CallsForRow(r.pk)) = 1
        ELSE \A pk \in ToUpdate : Cardinality(CallsForDocket(pk)) = 1

\* the items of the current run whose action has been dispatched or executed
Dispatched ==
    IF options.task = "merge_and_create" THEN Len(RunCalls) ELSE processed

\* the loop is at an item inside the window
InWindow ==
    /\ i < (IF options.task = "merge_and_create" THEN Len(idb_rows) ELSE StreamLen)
    /\ ~BeforeOffset
    /\ ~AtLimit

\* C12: in both tasks the throttle is consulted once for every item inside
\* the window, and has returned before the item's action is dispatched or
\* executed: maybe_wait() is called only for an item inside the window, with
\* every earlier item of the window dispatched; an action is dispatched only
\* after the call for its item has returned, and no second call is made for
\* the item; an item skipped by the offset or cut off by the limit makes no
\* call.  (The steps that begin a run, which reset the count, are left out.)
C12_ThrottleBeforeDispatch ==
    /\ [](pc \in {"loop", "done"} => waits = Dispatched)
    /\ [](pc = "throttled" => waits = Dispatched + 1 /\ InWindow)
    /\ [][(pc # "start" /\ pc' # "start") =>
            /\ waits' # waits =>
                  /\ pc = "loop" /\ InWindow
                  /\ waits' = waits + 1
                  /\ Dispatched' = Dispatched
                  /\ i' = i
            /\ Dispatched' # Dispatched =>
                  /\ pc = "throttled"
                  /\ waits = Dispatched + 1
                  /\ Dispatched' = Dispatched + 1
                  /\ waits' = waits
                  /\ i' = i + 1
            /\ (pc = "loop" /\ ~InWindow) => waits' = waits]_vars

\* C12 witness: a finished run of update_case_ids that skipped an item,
\* sent the chain of the next after one call of the throttle, and was cut
\* off by its limit before the third
C12_Witness ==
    /\ options.task = "update_case_ids"
    /\ pc = "done"
    /\ options.offset = 1
    /\ options.limit = 2
    /\ Len(stream) = 3
    /\ i = 2
    /\ waits = 1
    /\ processed = 1

\* C13: a failure of the loop body at position i is not caught.  The run is
\* in its error state from then on; it has made no call for a position from
\* i on and makes none later; the failure and what follows leave the calls
\* made for the positions below i as they are, and the jobs sent for them
\* stay on the queue until a worker runs them.
C13_FailureEndsRun ==
    /\ [](raised >= 0 =>
            /\ pc = "error"
            /\ i = raised
            /\ \A n \in DOMAIN RunCalls : RunCalls[n].i < raised)
    /\ [][raised' >= 0 =>
            /\ pc' = "error"
            /\ calls' = calls
            /\ i' = i
            /\ queue' = queue \/ (queue # <<>> /\ queue' = Tail(queue))
            /\ raised = -1 => (queue' = queue /\ dockets' = dockets)]_vars

\* C13 witness: the run failed at position 1 with rows left to stream, the
\* job sent for position 0 still on the queue
C13_Witness ==
    /\ pc = "error"
    /\ raised = 1
    /\ Len(idb_rows) > 2
    /\ Len(RunCalls) = 1
    /\ RunCalls[1].how = "apply_async"
    /\ Len(queue) = 1

\* the name a candidate docket is scored by when its case name is the
\* combined name of the IDB row
AsCandidate(idb_row) ==
    CandidateName([case_name |-> FormatV(idb_row.plaintiff, idb_row.defendant)])

\* C14: the name an IDB row is scored by is its combined name under the
\* policy of the candidates: harmonized, and each side cut to 30 characters
\* when it splits in two on " v. ".  The scorer ignores case, and so does
\* the comparison.
C14_SameNormalization ==
    \A n \in DOMAIN calls :
        calls[n].count > 1 =>
            lower(IdbCaseName(IdbRow(calls[n].idb)))
                = lower(AsCandidate(IdbRow(calls[n].idb)))

(***************************************************************************)
(* Properties of the prayers.                                              *)
(***************************************************************************)
\* C15: whatever the interleaving of the calls of create_prayer, no user
\* has more than ALLOWED_PRAYER_COUNT prayers created in the last 24 hours.
C15_QuotaHolds ==
    \A user \in Users : prayer_count(user) <= ALLOWED_PRAYER_COUNT

\* C16: a call of send_prayer_emails that has returned has sent an email to
\* the user of every prayer it changed from WAITING to GRANTED.
C16_GrantedAreNotified ==
    \A p \in DOMAIN procs :
        (procs[p].op = "send_prayer_emails" /\ procs[p].at = "return") =>
            \A id \in procs[p].granted :
                \E m \in outbox : m.by = p /\ m.to = prayers[id].user

====
